---- MODULE Spec2Model ----
(***************************************************************************)
(* Peer replication of the Eureka-compatible API server                    *)
(* (apiserver/eurekaserver/replicate.go).                                  *)
(*                                                                         *)
(* Inbound: BatchReplication -> doBatchReplicate -> dispatch, applied to   *)
(* the local registry operations.  Outbound: registry lifecycle events ->  *)
(* shouldReplicate -> handleInstanceEvent -> replicateWorker queue.        *)
(***************************************************************************)
EXTENDS Naturals, Sequences, FiniteSets

\* ------------------------------------------------------------------------
\* Bounds of the model
\* ------------------------------------------------------------------------
MaxBatch == 2       \* longest replication list of an inbound request
NumNodes == 2       \* nodes of the mesh
MaxChanges == 2     \* local registry changes made in the mesh

Nodes == 1 .. NumNodes
\* the node the single-node specifications look at
Self == CHOOSE n \in Nodes : \A m \in Nodes : n <= m

\* ------------------------------------------------------------------------
\* Program constants
\* ------------------------------------------------------------------------
actionRegister == "Register"
actionHeartbeat == "Heartbeat"
actionCancel == "Cancel"
actionStatusUpdate == "StatusUpdate"
actionDeleteStatusOverride == "DeleteStatusOverride"
actionOther == "Unknown"     \* any action string that is none of the five

KnownActions ==
    {actionRegister, actionHeartbeat, actionCancel, actionStatusUpdate,
     actionDeleteStatusOverride}

valueIdentityName == "PolarisServer"
otherIdentityName == "Eureka"   \* any header value other than valueIdentityName

\* api codes
ExecuteSuccess == "ExecuteSuccess"
ExistedResource == "ExistedResource"
SameInstanceRequest == "SameInstanceRequest"
NotFoundResource == "NotFoundResource"
HeartbeatExceedLimit == "HeartbeatExceedLimit"
ExecuteException == "ExecuteException"
ParseException == "ParseException"
NoCode == "none"                \* no code written yet

Codes ==
    {ExecuteSuccess, ExistedResource, SameInstanceRequest, NotFoundResource,
     HeartbeatExceedLimit, ExecuteException}

\* net/http status codes
StatusOK == 200
StatusBadRequest == 400
StatusForbidden == 403
StatusNotFound == 404

\* eureka instance statuses
StatusUp == "UP"
StatusDown == "DOWN"
StatusOutOfService == "OUT_OF_SERVICE"
NoStatus == ""

\* model.InstanceEventType
EventInstanceOnline == "InstanceOnline"
EventInstanceOffline == "InstanceOffline"
EventInstanceSendHeartbeat == "InstanceSendHeartbeat"
EventInstanceTurnHealth == "InstanceTurnHealth"
EventInstanceTurnUnHealth == "InstanceTurnUnHealth"
EventInstanceOpenIsolate == "InstanceOpenIsolate"
EventInstanceCloseIsolate == "InstanceCloseIsolate"
EventOther == "InstanceOtherEvent"   \* an event type the switch has no case for

EventKinds ==
    {EventInstanceOnline, EventInstanceOffline, EventInstanceSendHeartbeat,
     EventInstanceTurnHealth, EventInstanceTurnUnHealth,
     EventInstanceOpenIsolate, EventInstanceCloseIsolate, EventOther}

MetadataReplicate == "internal-eureka-replicate"
MetadataOtherKey == "version"

OwnNamespace == "default"       \* h.namespace
ForeignNamespace == "other"

Ids == {"i1"}

\* ------------------------------------------------------------------------
\* Data
\* ------------------------------------------------------------------------
\* InstanceInfo of a ReplicationInstance; present = FALSE is the nil pointer
NoInfo == [present |-> FALSE, healthy |-> FALSE, isolate |-> FALSE]

\* ReplicationInstance; dirty says whether LastDirtyTimestamp was set
ReplicationInstance(action, id, status, overridden, dirty, info) ==
    [action |-> action, id |-> id, status |-> status,
     overridden |-> overridden, dirty |-> dirty, info |-> info]

\* model.InstanceEvent; meta is the MetaData map as a set of <<key, value>>
InstanceEvent(kind, id, ns, meta, healthy, isolate) ==
    [kind |-> kind, id |-> id, ns |-> ns, meta |-> meta,
     healthy |-> healthy, isolate |-> isolate]

HasKey(metadata, k) == \E p \in metadata : p[1] = k
MetaGet(metadata, k) == (CHOOSE p \in metadata : p[1] = k)[2]

\* ------------------------------------------------------------------------
\* dispatch: the pure parts
\* ------------------------------------------------------------------------
\* (mutant) the switch has a default that treats the task as a Cancel
LocalOpDefaultCancel(action) ==
    CASE action = actionRegister -> "registerInstances"
      [] action = actionHeartbeat -> "renew"
      [] action = actionCancel -> "deregisterInstance"
      [] action = actionStatusUpdate -> "updateStatus"
      [] action = actionDeleteStatusOverride -> "updateStatus"
      [] OTHER -> "deregisterInstance"

\* the local operation the switch of dispatch invokes for an action
LocalOp(action) ==
    CASE action = actionRegister -> "registerInstances"
      [] action = actionHeartbeat -> "renew"
      [] action = actionCancel -> "deregisterInstance"
      [] action = actionStatusUpdate -> "updateStatus"
      [] action = actionDeleteStatusOverride -> "updateStatus"
      [] OTHER -> "none"

\* the status handed to updateStatus
OpStatus(task) ==
    IF task.action = actionStatusUpdate THEN task.status
    ELSE IF task.action = actionDeleteStatusOverride THEN StatusUp
    ELSE NoStatus

\* (mutant) the local operations are invoked as for a client's own request
ReplicatedMarkerUnset == FALSE

\* the replicated marker every call of dispatch passes
ReplicatedMarker == TRUE

\* (mutant) Register takes only ExistedResource for success
NormalizeRegisterStrict(action, retCode) ==
    CASE action = actionRegister ->
            IF retCode \in {ExecuteSuccess, ExistedResource}
            THEN ExecuteSuccess ELSE retCode
      [] action = actionHeartbeat ->
            IF retCode \in {ExecuteSuccess, HeartbeatExceedLimit}
            THEN ExecuteSuccess ELSE retCode
      [] action = actionCancel ->
            IF retCode \in {ExecuteSuccess, NotFoundResource, SameInstanceRequest}
            THEN ExecuteSuccess ELSE retCode
      [] OTHER -> retCode

\* (mutant) Cancel reports an instance that is not there
NormalizeCancelStrict(action, retCode) ==
    CASE action = actionRegister ->
            IF retCode \in {ExecuteSuccess, ExistedResource, SameInstanceRequest}
            THEN ExecuteSuccess ELSE retCode
      [] action = actionHeartbeat ->
            IF retCode \in {ExecuteSuccess, HeartbeatExceedLimit}
            THEN ExecuteSuccess ELSE retCode
      [] action = actionCancel ->
            IF retCode \in {ExecuteSuccess, SameInstanceRequest}
            THEN ExecuteSuccess ELSE retCode
      [] OTHER -> retCode

\* (mutant) Heartbeat reports the rate limit
NormalizeHeartbeatStrict(action, retCode) ==
    CASE action = actionRegister ->
            IF retCode \in {ExecuteSuccess, ExistedResource, SameInstanceRequest}
            THEN ExecuteSuccess ELSE retCode
      [] action = actionCancel ->
            IF retCode \in {ExecuteSuccess, NotFoundResource, SameInstanceRequest}
            THEN ExecuteSuccess ELSE retCode
      [] OTHER -> retCode

\* (mutant) the status operations take NotFoundResource for success, as
\* Cancel does
NormalizeStatusLenient(action, retCode) ==
    CASE action = actionRegister ->
            IF retCode \in {ExecuteSuccess, ExistedResource, SameInstanceRequest}
            THEN ExecuteSuccess ELSE retCode
      [] action = actionHeartbeat ->
            IF retCode \in {ExecuteSuccess, HeartbeatExceedLimit}
            THEN ExecuteSuccess ELSE retCode
      [] action = actionCancel ->
            IF retCode \in {ExecuteSuccess, NotFoundResource, SameInstanceRequest}
            THEN ExecuteSuccess ELSE retCode
      [] action \in {actionStatusUpdate, actionDeleteStatusOverride} ->
            IF retCode \in {ExecuteSuccess, NotFoundResource}
            THEN ExecuteSuccess ELSE retCode
      [] OTHER -> retCode

\* retCode after the case of the switch: the code the operation returned,
\* turned into ExecuteSuccess where the case says so
Normalize(action, retCode) ==
    CASE action = actionRegister ->
            IF retCode \in {ExecuteSuccess, ExistedResource, SameInstanceRequest}
            THEN ExecuteSuccess ELSE retCode
      [] action = actionHeartbeat ->
            IF retCode \in {ExecuteSuccess, HeartbeatExceedLimit}
            THEN ExecuteSuccess ELSE retCode
      [] action = actionCancel ->
            IF retCode \in {ExecuteSuccess, NotFoundResource, SameInstanceRequest}
            THEN ExecuteSuccess ELSE retCode
      [] OTHER -> retCode

\* (mutant) every code that is not ExecuteSuccess is answered 404
ResponseStatusCodeAnyFailure(retCode) ==
    IF retCode # ExecuteSuccess THEN StatusNotFound ELSE StatusOK

\* StatusCode of the ReplicationInstanceResponse
ResponseStatusCode(retCode) ==
    IF retCode = NotFoundResource THEN StatusNotFound ELSE StatusOK

\* (mutant) the first code that is not ExecuteSuccess is kept
AggregateFirstWins(resultCode, code) ==
    IF resultCode = ExecuteSuccess /\ code # ExecuteSuccess THEN code ELSE resultCode

\* doBatchReplicate: resultCode after one more task returned code
Aggregate(resultCode, code) ==
    IF code # ExecuteSuccess THEN code ELSE resultCode

\* (mutant) the response is put in front of the list
PrependResponse(responseList, resp) == <<resp>> \o responseList

\* doBatchReplicate: the response list after one more response
AppendResponse(responseList, resp) == Append(responseList, resp)

\* ------------------------------------------------------------------------
\* shouldReplicate
\* ------------------------------------------------------------------------
\* strconv.ParseBool: the value returned (false together with an error for
\* a string that is no boolean)
ParseBool(str) == str \in {"1", "t", "T", "TRUE", "true", "True"}

\* (mutant) an event that carries the flag is never replicated, whatever the
\* value of the flag
shouldReplicateFlagPresent(e) ==
    IF e.ns # OwnNamespace THEN FALSE
    ELSE IF Cardinality(e.meta) > 0 /\ HasKey(e.meta, MetadataReplicate)
         THEN FALSE
         ELSE TRUE

shouldReplicate(e) ==
    IF e.ns # OwnNamespace THEN FALSE
    ELSE IF Cardinality(e.meta) > 0 /\ HasKey(e.meta, MetadataReplicate)
         THEN ~ParseBool(MetaGet(e.meta, MetadataReplicate))
         ELSE TRUE

\* ------------------------------------------------------------------------
\* handleInstanceEvent: the translation of an event into a task
\* ------------------------------------------------------------------------
eventToInstance(e) ==
    [present |-> TRUE,
     healthy |-> IF e.kind = EventInstanceTurnHealth THEN TRUE
                 ELSE IF e.kind = EventInstanceTurnUnHealth THEN FALSE
                 ELSE e.healthy,
     isolate |-> IF e.kind = EventInstanceOpenIsolate THEN TRUE
                 ELSE IF e.kind = EventInstanceCloseIsolate THEN FALSE
                 ELSE e.isolate]

\* (mutant) the task of InstanceOnline is built without the instance
OnlineTaskNoSnapshot(e) ==
    ReplicationInstance(actionRegister, e.id, StatusUp, NoStatus, TRUE, NoInfo)

\* case model.EventInstanceOnline
OnlineTask(e) ==
    ReplicationInstance(actionRegister, e.id, StatusUp, NoStatus, TRUE,
                        eventToInstance(e))

\* (mutant) the task of InstanceOffline carries the instance, as Register does
OfflineTaskWithSnapshot(e) ==
    ReplicationInstance(actionCancel, e.id, NoStatus, NoStatus, FALSE,
                        eventToInstance(e))

\* case model.EventInstanceOffline
OfflineTask(e) ==
    ReplicationInstance(actionCancel, e.id, NoStatus, NoStatus, FALSE, NoInfo)

\* (mutant) the isolation of the instance is not looked at
SendHeartbeatTaskNoOverride(e) ==
    ReplicationInstance(actionHeartbeat, e.id, StatusUp, NoStatus, FALSE,
                        eventToInstance(e))

\* case model.EventInstanceSendHeartbeat
SendHeartbeatTask(e) ==
    ReplicationInstance(actionHeartbeat, e.id, StatusUp,
                        IF e.isolate THEN StatusOutOfService ELSE NoStatus,
                        FALSE, eventToInstance(e))

\* case model.EventInstanceTurnHealth
TurnHealthTask(e) ==
    ReplicationInstance(actionStatusUpdate, e.id, StatusUp, NoStatus, TRUE, NoInfo)

\* (mutant) the status of the case above is kept
TurnUnHealthTaskStatusUp(e) ==
    ReplicationInstance(actionStatusUpdate, e.id, StatusUp, NoStatus, TRUE, NoInfo)

\* case model.EventInstanceTurnUnHealth
TurnUnHealthTask(e) ==
    ReplicationInstance(actionStatusUpdate, e.id, StatusDown, NoStatus, TRUE, NoInfo)

\* case model.EventInstanceOpenIsolate
OpenIsolateTask(e) ==
    ReplicationInstance(actionHeartbeat, e.id, NoStatus, StatusOutOfService,
                        TRUE, NoInfo)

\* case model.EventInstanceCloseIsolate
CloseIsolateTask(e) ==
    ReplicationInstance(actionDeleteStatusOverride, e.id, NoStatus, NoStatus,
                        TRUE, NoInfo)

\* the tasks handleInstanceEvent adds for an event that passed shouldReplicate:
\* one per case of the switch, none for an event type without a case
EventTasks(e) ==
    CASE e.kind = EventInstanceOnline -> <<OnlineTask(e)>>
      [] e.kind = EventInstanceOffline -> <<OfflineTask(e)>>
      [] e.kind = EventInstanceSendHeartbeat -> <<SendHeartbeatTask(e)>>
      [] e.kind = EventInstanceTurnHealth -> <<TurnHealthTask(e)>>
      [] e.kind = EventInstanceTurnUnHealth -> <<TurnUnHealthTask(e)>>
      [] e.kind = EventInstanceOpenIsolate -> <<OpenIsolateTask(e)>>
      [] e.kind = EventInstanceCloseIsolate -> <<CloseIsolateTask(e)>>
      [] OTHER -> << >>

\* what handleInstanceEvent hands to AddReplicateTask for event e
handleInstanceEventTasks(e) ==
    IF ~shouldReplicate(e) THEN << >> ELSE EventTasks(e)

\* ------------------------------------------------------------------------
\* The local registry operations (external collaborators of replicate.go)
\* ------------------------------------------------------------------------
\* metadata of the event an operation publishes: an operation invoked with
\* the replicated marker tags its event with the replicate flag
ReplicateMeta(replicated) ==
    IF replicated THEN {<<MetadataReplicate, "true">>} ELSE {}

OpEvent(kind, id, replicated) ==
    [e |-> InstanceEvent(kind, id, OwnNamespace, ReplicateMeta(replicated),
                         TRUE, FALSE),
     replicated |-> replicated]

\* the event type updateStatus publishes for a status
StatusEventKind(status) ==
    CASE status = StatusUp -> EventInstanceTurnHealth
      [] status = StatusDown -> EventInstanceTurnUnHealth
      [] status = StatusOutOfService -> EventInstanceOpenIsolate
      [] OTHER -> EventOther

Outcome(code, reg, ev) == [code |-> code, reg |-> reg, ev |-> ev]

\* codes an operation returns only in a matching registry state
StateCodes(op) ==
    CASE op = "registerInstances" -> {ExistedResource, SameInstanceRequest}
      [] op = "renew" -> {NotFoundResource}
      [] op = "deregisterInstance" -> {NotFoundResource, SameInstanceRequest}
      [] op = "updateStatus" -> {NotFoundResource}
      [] OTHER -> {}

\* every outcome operation op may have on registry reg: its code, the
\* registry after it and the events it publishes
OpOutcomes(op, id, status, replicated, reg) ==
    LET fail == {Outcome(c, reg, << >>) :
                    c \in Codes \ ({ExecuteSuccess} \cup StateCodes(op))}
        refuse == {Outcome(c, reg, << >>) : c \in StateCodes(op)}
    IN  fail \cup
        CASE op = "registerInstances" ->
                IF id \in reg THEN refuse
                ELSE {Outcome(ExecuteSuccess, reg \cup {id},
                              <<OpEvent(EventInstanceOnline, id, replicated)>>)}
          [] op = "renew" ->
                IF id \notin reg THEN refuse
                ELSE {Outcome(ExecuteSuccess, reg,
                              <<OpEvent(EventInstanceSendHeartbeat, id, replicated)>>)}
          [] op = "deregisterInstance" ->
                IF id \notin reg THEN refuse
                ELSE {Outcome(ExecuteSuccess, reg \ {id},
                              <<OpEvent(EventInstanceOffline, id, replicated)>>)}
          [] op = "updateStatus" ->
                IF id \notin reg THEN refuse
                ELSE {Outcome(ExecuteSuccess, reg,
                              <<OpEvent(StatusEventKind(status), id, replicated)>>)}
          [] OTHER -> {}

\* ------------------------------------------------------------------------
\* Inputs
\* ------------------------------------------------------------------------
Task(action, id, status) ==
    ReplicationInstance(action, id, status, NoStatus, FALSE,
                        IF action = actionRegister
                        THEN [present |-> TRUE, healthy |-> TRUE, isolate |-> FALSE]
                        ELSE NoInfo)

\* the tasks inbound requests are made of
Tasks ==
    {Task(a, id, NoStatus) :
        a \in {actionRegister, actionHeartbeat, actionCancel, actionOther},
        id \in Ids}
    \cup {Task(actionStatusUpdate, id, st) : id \in Ids, st \in {StatusUp, StatusDown}}
    \cup {Task(actionDeleteStatusOverride, id, StatusDown) : id \in Ids}

RECURSIVE SeqsUpTo(_, _)
SeqsUpTo(S, n) ==
    IF n = 0 THEN {<< >>}
    ELSE LET shorter == SeqsUpTo(S, n - 1)
         IN  shorter \cup {Append(q, x) : q \in shorter, x \in S}

Batches == SeqsUpTo(Tasks, MaxBatch)

\* MetaData maps of the events the event source hands over
Metas ==
    {{}, {<<MetadataReplicate, "true">>}, {<<MetadataReplicate, "1">>},
     {<<MetadataReplicate, "false">>}, {<<MetadataReplicate, "yes">>},
     {<<MetadataOtherKey, "true">>},
     {<<MetadataOtherKey, "v1">>, <<MetadataReplicate, "True">>}}

Events ==
    {InstanceEvent(k, id, ns, md, h, iso) :
        k \in EventKinds, id \in Ids, ns \in {OwnNamespace, ForeignNamespace},
        md \in Metas, h \in BOOLEAN, iso \in BOOLEAN}

\* ------------------------------------------------------------------------
\* State
\* ------------------------------------------------------------------------
Slots == {1, 2}     \* requests a node may be serving at once

VARIABLES
    registry,   \* registry[n]: ids of the instances registered at node n
    events,     \* events[n]: lifecycle events published at n, not yet handled
    outQ,       \* outQ[n]: tasks handed to the replicate worker of n
    req,        \* req[n][s]: the BatchReplication call in slot s of node n
    net,        \* net[n]: batch requests sent to node n, not yet received
    last,       \* the call of handleInstanceEvent made by the latest step, if
                \* that step was one: its node, its event, what shouldReplicate
                \* returned and the tasks it added
    changes,    \* number of local registry changes made so far
    changedAt,  \* nodes at which a local change or a local event arose
    enqueuedAt  \* nodes whose handleInstanceEvent has added a task

vars == <<registry, events, outQ, req, net, last, changes, changedAt, enqueuedAt>>

Idle ==
    [pc |-> "idle", src |-> "", wellFormed |-> TRUE, auth |-> TRUE,
     list |-> << >>, pos |-> 0, ResponseList |-> << >>,
     resultCode |-> ExecuteSuccess, calls |-> << >>, codes |-> << >>,
     wroteList |-> FALSE, httpStatus |-> 0, polarisCode |-> NoCode]

NoCall ==
    [seen |-> FALSE, node |-> Self, e |-> InstanceEvent("", "", "", {}, FALSE, FALSE),
     replicated |-> FALSE, replicate |-> FALSE, tasks |-> << >>]

Init ==
    /\ registry = [n \in Nodes |-> {}]
    /\ events = [n \in Nodes |-> << >>]
    /\ outQ = [n \in Nodes |-> << >>]
    /\ req = [n \in Nodes |-> [s \in Slots |-> Idle]]
    /\ net = [n \in Nodes |-> << >>]
    /\ last = NoCall
    /\ changes = 0
    /\ changedAt = {}
    /\ enqueuedAt = {}

\* ------------------------------------------------------------------------
\* BatchReplication
\* ------------------------------------------------------------------------
\* the code writeEurekaResponse reports
SelfEchoCode == ExecuteSuccess

\* the code written when the auth info cannot be read from the header
AuthFailCode == ExecuteException

\* the credential of a request, as its headers carry it
Credentials == {"valid", "missing", "invalid"}

\* getAuthFromEurekaRequestHeader: TRUE when it returns the token, FALSE when
\* it returns an error
getAuthFromEurekaRequestHeader(cred) == cred = "valid"

\* (mutant) no check of the identity header
EntryNoIdentityCheck(src, wellFormed, auth, list) ==
    LET in == [Idle EXCEPT !.src = src, !.wellFormed = wellFormed,
                           !.auth = auth, !.list = list]
    IN  IF ~wellFormed
        THEN [in EXCEPT !.pc = "done", !.httpStatus = StatusBadRequest,
                        !.polarisCode = ParseException]
        ELSE IF ~auth
        THEN [in EXCEPT !.pc = "done", !.httpStatus = StatusForbidden,
                        !.polarisCode = AuthFailCode]
        ELSE [in EXCEPT !.pc = "run"]

\* (mutant) the error of ReadEntity is dropped and what was read is replicated
EntryParseErrorDropped(src, wellFormed, auth, list) ==
    LET in == [Idle EXCEPT !.src = src, !.wellFormed = wellFormed,
                           !.auth = auth, !.list = list]
    IN  IF src = valueIdentityName
        THEN [in EXCEPT !.pc = "done", !.wroteList = TRUE,
                        !.httpStatus = StatusOK, !.polarisCode = SelfEchoCode]
        ELSE IF ~auth
        THEN [in EXCEPT !.pc = "done", !.httpStatus = StatusForbidden,
                        !.polarisCode = AuthFailCode]
        ELSE [in EXCEPT !.pc = "run"]

\* (mutant) the error of getAuthFromEurekaRequestHeader is dropped and the
\* list is replicated without a token
EntryAuthErrorDropped(src, wellFormed, auth, list) ==
    LET in == [Idle EXCEPT !.src = src, !.wellFormed = wellFormed,
                           !.auth = auth, !.list = list]
    IN  IF src = valueIdentityName
        THEN [in EXCEPT !.pc = "done", !.wroteList = TRUE,
                        !.httpStatus = StatusOK, !.polarisCode = SelfEchoCode]
        ELSE IF ~wellFormed
        THEN [in EXCEPT !.pc = "done", !.httpStatus = StatusBadRequest,
                        !.polarisCode = ParseException]
        ELSE [in EXCEPT !.pc = "run"]

\* (mutant) the auth info is read before the body
EntryAuthBeforeParse(src, wellFormed, auth, list) ==
    LET in == [Idle EXCEPT !.src = src, !.wellFormed = wellFormed,
                           !.auth = auth, !.list = list]
    IN  IF src = valueIdentityName
        THEN [in EXCEPT !.pc = "done", !.wroteList = TRUE,
                        !.httpStatus = StatusOK, !.polarisCode = SelfEchoCode]
        ELSE IF ~auth
        THEN [in EXCEPT !.pc = "done", !.httpStatus = StatusForbidden,
                        !.polarisCode = AuthFailCode]
        ELSE IF ~wellFormed
        THEN [in EXCEPT !.pc = "done", !.httpStatus = StatusBadRequest,
                        !.polarisCode = ParseException]
        ELSE [in EXCEPT !.pc = "run"]

\* BatchReplication up to the call of doBatchReplicate, for a request with
\* identity header src, a body that parses (wellFormed) to list, and auth
\* info that can be read (auth)
Entry(src, wellFormed, auth, list) ==
    LET in == [Idle EXCEPT !.src = src, !.wellFormed = wellFormed,
                           !.auth = auth, !.list = list]
    IN  IF src = valueIdentityName
        THEN [in EXCEPT !.pc = "done", !.wroteList = TRUE,
                        !.httpStatus = StatusOK, !.polarisCode = SelfEchoCode]
        ELSE IF ~wellFormed
        THEN [in EXCEPT !.pc = "done", !.httpStatus = StatusBadRequest,
                        !.polarisCode = ParseException]
        ELSE IF ~auth
        THEN [in EXCEPT !.pc = "done", !.httpStatus = StatusForbidden,
                        !.polarisCode = AuthFailCode]
        ELSE [in EXCEPT !.pc = "run"]

\* a request of any peer arrives at node n, once the events of the requests
\* before it are handled
BatchReplication(n, s) ==
    /\ req[n][s].pc = "idle"
    /\ events[n] = << >>
    /\ \E src \in {valueIdentityName, otherIdentityName},
          wellFormed \in BOOLEAN, cred \in Credentials, list \in Batches :
          req' = [req EXCEPT ![n][s] =
                    Entry(src, wellFormed, getAuthFromEurekaRequestHeader(cred), list)]
    /\ last' = NoCall
    /\ UNCHANGED <<registry, events, outQ, net, changes, changedAt, enqueuedAt>>

\* the ReplicationInstanceResponse of dispatch
Response(retCode) == [StatusCode |-> ResponseStatusCode(retCode)]

\* (mutant) resultCode is kept on the server and shared by the requests it
\* is serving: the loop goes on from the code another running request left
DispatchedSharedResult(r, call, retCode) ==
    LET left == {q \in {req[n][s] : n \in Nodes, s \in Slots} :
                    q.pc = "run" /\ q.resultCode # ExecuteSuccess}
        shared == IF left = {} THEN r.resultCode
                  ELSE (CHOOSE q \in left : TRUE).resultCode
    IN  [r EXCEPT !.pos = r.pos + 1,
                  !.calls = r.calls \o call,
                  !.codes = Append(r.codes, retCode),
                  !.resultCode = Aggregate(shared, retCode),
                  !.ResponseList = AppendResponse(r.ResponseList, Response(retCode))]

\* the request after dispatch of its next task returned retCode; call is the
\* local operation dispatch invoked, if any
Dispatched(r, call, retCode) ==
    [r EXCEPT !.pos = r.pos + 1,
              !.calls = r.calls \o call,
              !.codes = Append(r.codes, retCode),
              !.resultCode = Aggregate(r.resultCode, retCode),
              !.ResponseList = AppendResponse(r.ResponseList, Response(retCode))]

\* one invocation of a local operation by dispatch: the index of its task,
\* the operation and its arguments, the registry it found, the code returned
Call(idx, op, task, before, ret) ==
    [idx |-> idx, op |-> op, id |-> task.id, status |-> OpStatus(task),
     replicated |-> ReplicatedMarker, before |-> before, ret |-> ret]

\* (mutant) the list is gone through from its last element to its first
NextTaskBackwards(r) == r.list[Len(r.list) - r.pos]

\* the task the loop of doBatchReplicate dispatches next: range goes through
\* ReplicationList from its first element to its last
NextTask(r) == r.list[r.pos + 1]

\* one turn of the loop of doBatchReplicate: dispatch of the next task
doBatchReplicate(n, s) ==
    LET r == req[n][s]
        task == NextTask(r)
        op == LocalOp(task.action)
    IN  /\ r.pc = "run"
        /\ r.pos < Len(r.list)
        /\ IF op = "none"
           THEN /\ req' = [req EXCEPT ![n][s] = Dispatched(r, << >>, ExecuteSuccess)]
                /\ UNCHANGED <<registry, events>>
           ELSE \E o \in OpOutcomes(op, task.id, OpStatus(task), ReplicatedMarker,
                                   registry[n]) :
                   /\ registry' = [registry EXCEPT ![n] = o.reg]
                   /\ events' = [events EXCEPT ![n] = events[n] \o o.ev]
                   /\ req' = [req EXCEPT ![n][s] =
                                Dispatched(r, <<Call(r.pos + 1, op, task, registry[n], o.code)>>,
                                           Normalize(task.action, o.code))]
        /\ last' = NoCall
        /\ UNCHANGED <<outQ, net, changes, changedAt, enqueuedAt>>

\* doBatchReplicate returns and BatchReplication writes the response
writeEurekaResponseWithCode(n, s) ==
    LET r == req[n][s]
    IN  /\ r.pc = "run"
        /\ r.pos = Len(r.list)
        /\ req' = [req EXCEPT ![n][s] =
                     [r EXCEPT !.pc = "done", !.wroteList = TRUE,
                               !.httpStatus = StatusOK,
                               !.polarisCode = r.resultCode]]
        /\ last' = NoCall
        /\ UNCHANGED <<registry, events, outQ, net, changes, changedAt, enqueuedAt>>

\* the request is over; the slot serves the next one
Return(n, s) ==
    /\ req[n][s].pc = "done"
    /\ req' = [req EXCEPT ![n][s] = Idle]
    /\ last' = NoCall
    /\ UNCHANGED <<registry, events, outQ, net, changes, changedAt, enqueuedAt>>

\* ------------------------------------------------------------------------
\* handleInstanceEvent
\* ------------------------------------------------------------------------
handleInstanceEvent(n) ==
    /\ events[n] # << >>
    /\ LET ev == Head(events[n])
           tasks == handleInstanceEventTasks(ev.e)
       IN  /\ outQ' = [outQ EXCEPT ![n] = outQ[n] \o tasks]
           /\ last' = [seen |-> TRUE, node |-> n, e |-> ev.e,
                       replicated |-> ev.replicated,
                       replicate |-> shouldReplicate(ev.e), tasks |-> tasks]
           /\ enqueuedAt' = IF tasks # << >> THEN enqueuedAt \cup {n} ELSE enqueuedAt
    /\ events' = [events EXCEPT ![n] = Tail(events[n])]
    /\ UNCHANGED <<registry, req, net, changes, changedAt>>

\* ------------------------------------------------------------------------
\* One node serving the requests of its peers
\* ------------------------------------------------------------------------
Next ==
    \/ BatchReplication(Self, 1)
    \/ doBatchReplicate(Self, 1)
    \/ writeEurekaResponseWithCode(Self, 1)
    \/ Return(Self, 1)
    \/ handleInstanceEvent(Self)

Spec == Init /\ [][Next]_vars

\* ------------------------------------------------------------------------
\* The event source and the replicate worker
\* ------------------------------------------------------------------------
\* the lifecycle event source hands any event to handleInstanceEvent
LocalEvent(n) ==
    /\ events[n] = << >>
    /\ outQ[n] = << >>
    /\ \A m \in Nodes : net[m] = << >>
    /\ \E e \in Events :
          events' = [events EXCEPT ![n] = <<[e |-> e, replicated |-> FALSE]>>]
    /\ last' = NoCall
    /\ changedAt' = changedAt \cup {n}
    /\ UNCHANGED <<registry, outQ, req, net, changes, enqueuedAt>>

\* the replicate worker sends the tasks of its queue as one batch to every
\* peer, under either identity header
Peers(n) == Nodes \ {n}

WorkerSend(n) ==
    /\ outQ[n] # << >>
    /\ \E src \in {valueIdentityName, otherIdentityName} :
          net' = [m \in Nodes |->
                    IF m \in Peers(n)
                    THEN Append(net[m], [src |-> src, list |-> outQ[n]])
                    ELSE net[m]]
    /\ outQ' = [outQ EXCEPT ![n] = << >>]
    /\ last' = NoCall
    /\ UNCHANGED <<registry, events, req, changes, changedAt, enqueuedAt>>

\* delivery is best effort: a batch sent to an unreachable peer is lost
Lose(m) ==
    /\ net[m] # << >>
    /\ net' = [net EXCEPT ![m] = Tail(net[m])]
    /\ last' = NoCall
    /\ UNCHANGED <<registry, events, outQ, req, changes, changedAt, enqueuedAt>>

\* a batch request sent by a peer's worker arrives: BatchReplication
Receive(n, s) ==
    /\ req[n][s].pc = "idle"
    /\ net[n] # << >>
    /\ req' = [req EXCEPT ![n][s] =
                 Entry(Head(net[n]).src, TRUE, TRUE, Head(net[n]).list)]
    /\ net' = [net EXCEPT ![n] = Tail(net[n])]
    /\ last' = NoCall
    /\ UNCHANGED <<registry, events, outQ, changes, changedAt, enqueuedAt>>

\* nothing is queued, in flight or being served anywhere
Quiescent ==
    \A n \in Nodes :
        /\ events[n] = << >>
        /\ outQ[n] = << >>
        /\ net[n] = << >>
        /\ \A s \in Slots : req[n][s].pc = "idle"

\* a client of node n changes the registry of n: a local operation invoked
\* without the replicated marker.  Changes arrive one at a time, each after
\* the replication of the one before has settled
LocalChange(n) ==
    /\ changes < MaxChanges
    /\ Quiescent
    /\ \E op \in {"registerInstances", "renew", "deregisterInstance", "updateStatus"},
          id \in Ids, status \in {StatusUp, StatusDown, StatusOutOfService} :
          /\ op # "updateStatus" => status = StatusUp
          /\ \E o \in OpOutcomes(op, id, status, FALSE, registry[n]) :
                /\ o.code = ExecuteSuccess
                /\ registry' = [registry EXCEPT ![n] = o.reg]
                /\ events' = [events EXCEPT ![n] = events[n] \o o.ev]
    /\ changes' = changes + 1
    /\ changedAt' = changedAt \cup {n}
    /\ last' = NoCall
    /\ UNCHANGED <<outQ, req, net, enqueuedAt>>

\* ------------------------------------------------------------------------
\* The outbound path of one node: any event, translated and queued
\* ------------------------------------------------------------------------
EventNext ==
    \/ LocalEvent(Self)
    \/ handleInstanceEvent(Self)
    \/ WorkerSend(Self)
    \/ \E m \in Peers(Self) : Lose(m)

EventSpec == Init /\ [][EventNext]_vars

\* ------------------------------------------------------------------------
\* A full mesh of nodes
\* ------------------------------------------------------------------------
MeshStep(n) ==
    \/ LocalChange(n)
    \/ handleInstanceEvent(n)
    \/ WorkerSend(n)
    \/ Receive(n, 1)
    \/ doBatchReplicate(n, 1)
    \/ writeEurekaResponseWithCode(n, 1)
    \/ Return(n, 1)

MeshNext == \E n \in Nodes : MeshStep(n)

MeshSpec == Init /\ [][MeshNext]_vars

\* every node keeps running: its event handler, its worker and its request
\* handlers are scheduled again and again
MeshFairness ==
    \A n \in Nodes :
        /\ WF_vars(handleInstanceEvent(n))
        /\ WF_vars(WorkerSend(n))
        /\ WF_vars(Receive(n, 1))
        /\ WF_vars(doBatchReplicate(n, 1))
        /\ WF_vars(writeEurekaResponseWithCode(n, 1))
        /\ WF_vars(Return(n, 1))

MeshFairSpec == MeshSpec /\ MeshFairness

\* ------------------------------------------------------------------------
\* Properties
\* ------------------------------------------------------------------------
Requests == {req[n][s] : n \in Nodes, s \in Slots}

\* the request got past the identity, parse and auth checks of BatchReplication
Passed(r) ==
    /\ r.pc \in {"run", "done"}
    /\ r.src # valueIdentityName /\ r.wellFormed /\ r.auth

Max(S) == CHOOSE x \in S : \A y \in S : y <= x

NonSuccess(codes) == {i \in DOMAIN codes : codes[i] # ExecuteSuccess}

\* the calls of request r made for its task at index i
CallsOf(r, i) == {k \in DOMAIN r.calls : r.calls[k].idx = i}

\* the code dispatch returns for the task at index i of r, by the code its
\* local operation returned
TaskCode(r, i) ==
    IF r.list[i].action \in KnownActions
    THEN Normalize(r.list[i].action, r.calls[CHOOSE k \in CallsOf(r, i) : TRUE].ret)
    ELSE ExecuteSuccess

\* C1: the aggregate code a batch ends with is ExecuteSuccess iff every task's
\* code after normalization is ExecuteSuccess; otherwise it is the normalized
\* code of the last task, in request order, whose code is not ExecuteSuccess.
C1_AggregateIsLastNonSuccess ==
    \A r \in Requests :
        (Passed(r) /\ r.pc = "done") =>
            /\ r.polarisCode = r.resultCode
            /\ (r.resultCode = ExecuteSuccess) <=> (NonSuccess(r.codes) = {})
            /\ NonSuccess(r.codes) # {} =>
                  r.resultCode = r.codes[Max(NonSuccess(r.codes))]

\* a batch of two failing tasks with different codes ended with the second
C1_Witness ==
    \E r \in Requests :
        /\ Passed(r) /\ r.pc = "done"
        /\ r.codes = <<ExecuteException, NotFoundResource>>
        /\ r.polarisCode = NotFoundResource

\* C2: for a batch that passed the checks, the response list has as many
\* entries as the request list, and the entry at index i is the outcome of
\* the task at index i, whatever the actions and the codes returned.
C2_ResponsesPairWithTasks ==
    \A r \in Requests :
        Passed(r) =>
            /\ Len(r.ResponseList) = r.pos
            /\ r.pc = "done" => Len(r.ResponseList) = Len(r.list)
            /\ \A i \in 1 .. r.pos :
                  /\ r.list[i].action \in KnownActions => CallsOf(r, i) # {}
                  /\ r.ResponseList[i] = Response(TaskCode(r, i))

\* a finished batch of two tasks whose first response is 404 and second 200
C2_Witness ==
    \E r \in Requests :
        /\ Passed(r) /\ r.pc = "done" /\ Len(r.list) = 2
        /\ r.list[1].action = actionStatusUpdate
        /\ r.list[2].action = actionRegister
        /\ r.ResponseList = <<[StatusCode |-> StatusNotFound],
                              [StatusCode |-> StatusOK]>>

\* the codes a working registry returns to an operation: those that tell
\* what it did or why, by its state, there was nothing to do
WorkingCodes(op) == {ExecuteSuccess} \cup StateCodes(op)

\* C3: within one batch the local operations are invoked one after another in
\* request order, exactly one per task with a known action and none for any
\* other, and a code that is not ExecuteSuccess stops no later task; so
\* Register i1, Heartbeat i1 on an empty working registry registers, then
\* renews the registered instance, and the aggregate is ExecuteSuccess.
C3_SequentialInRequestOrder ==
    \A r \in Requests :
        Passed(r) =>
            /\ \A k \in DOMAIN r.calls :
                  /\ r.calls[k].idx \in 1 .. r.pos
                  /\ r.calls[k].op = LocalOp(r.list[r.calls[k].idx].action)
                  /\ r.calls[k].id = r.list[r.calls[k].idx].id
                  /\ \A j \in DOMAIN r.calls : j < k => r.calls[j].idx < r.calls[k].idx
            /\ \A i \in 1 .. r.pos :
                  Cardinality(CallsOf(r, i)) =
                      IF r.list[i].action \in KnownActions THEN 1 ELSE 0
            /\ r.pc = "done" => r.pos = Len(r.list)
            /\ ( /\ r.pc = "done"
                 /\ r.list = <<Task(actionRegister, "i1", NoStatus),
                               Task(actionHeartbeat, "i1", NoStatus)>>
                 /\ r.calls[1].before = {}
                 /\ \A k \in DOMAIN r.calls : r.calls[k].ret \in WorkingCodes(r.calls[k].op) )
               => /\ r.calls[1].op = "registerInstances"
                  /\ r.calls[1].ret = ExecuteSuccess
                  /\ r.calls[2].op = "renew"
                  /\ "i1" \in r.calls[2].before
                  /\ r.calls[2].ret = ExecuteSuccess
                  /\ r.polarisCode = ExecuteSuccess

\* Register i1, Heartbeat i1 was applied to an empty registry: two calls, the
\* instance registered by the first and renewed by the second
C3_Witness ==
    \E r \in Requests :
        /\ Passed(r) /\ r.pc = "done"
        /\ r.list = <<Task(actionRegister, "i1", NoStatus),
                      Task(actionHeartbeat, "i1", NoStatus)>>
        /\ Len(r.calls) = 2
        /\ r.calls[1].before = {}
        /\ r.calls[1].ret = ExecuteSuccess
        /\ r.calls[2].ret = ExecuteSuccess
        /\ r.polarisCode = ExecuteSuccess

\* the metadata of e carries the replicate flag and its value reads as true
FlagSetTrue(e) ==
    \E p \in e.meta : p[1] = MetadataReplicate /\ ParseBool(p[2])

\* C4: shouldReplicate returns false for every event of another namespace,
\* false for every event of the node's namespace whose replicate flag is set
\* true, and true for every other event (no flag, or a flag that is not true).
C4_ShouldReplicate ==
    last.seen =>
        /\ last.e.ns # OwnNamespace => ~last.replicate
        /\ (last.e.ns = OwnNamespace /\ FlagSetTrue(last.e)) => ~last.replicate
        /\ (last.e.ns = OwnNamespace /\ ~FlagSetTrue(last.e)) => last.replicate
        /\ ~last.replicate => last.tasks = << >>

\* an event of the node's namespace whose flag is present and not true was
\* handled, found eligible and turned into a task
C4_Witness ==
    /\ last.seen
    /\ last.e.ns = OwnNamespace
    /\ HasKey(last.e.meta, MetadataReplicate)
    /\ ~FlagSetTrue(last.e)
    /\ last.replicate
    /\ last.tasks # << >>

\* what holds of the mesh in every state: dispatch invokes every local
\* operation with the replicated marker, the events of these operations carry
\* the replicate flag, handleInstanceEvent adds no task for them, and tasks
\* have only been added at nodes where a local change arose
NoReplicationOfReplicated ==
    /\ \A r \in Requests : \A k \in DOMAIN r.calls : r.calls[k].replicated
    /\ \A n \in Nodes : \A i \in DOMAIN events[n] :
          events[n][i].replicated => FlagSetTrue(events[n][i].e)
    /\ (last.seen /\ last.replicated) => (~last.replicate /\ last.tasks = << >>)
    /\ enqueuedAt \subseteq changedAt

\* C5: an event that results from applying an inbound replication never makes
\* handleInstanceEvent add an outbound task, so in a full mesh a local change
\* produces tasks only at the node where it arose, and replication traffic
\* stops in the end.
C5_NoReplicationLoop ==
    /\ []NoReplicationOfReplicated
    /\ <>[]Quiescent

\* a node where no local change arose handled the event of a replicated
\* operation and added no task
C5_Witness ==
    /\ last.seen
    /\ last.replicated
    /\ last.node \notin changedAt
    /\ last.tasks = << >>
    /\ outQ[last.node] = << >>

\* call c of a request was answered in a way that asks for nothing more:
\* the operation succeeded, or c is one of the given (operation, code) pairs
Harmless(c, op, codes) ==
    c.ret = ExecuteSuccess \/ (c.op = op /\ c.ret \in codes)

\* C6: a Register whose registerInstances returns ExistedResource or
\* SameInstanceRequest is answered ExecuteSuccess, so registering a registered
\* instance again never makes the aggregate of the batch a failure.
C6_RegisterIdempotent ==
    \A r \in Requests :
        Passed(r) =>
            /\ \A k \in DOMAIN r.calls :
                  ( /\ r.list[r.calls[k].idx].action = actionRegister
                    /\ r.calls[k].ret \in {ExistedResource, SameInstanceRequest} )
                  => /\ r.codes[r.calls[k].idx] = ExecuteSuccess
                     /\ r.ResponseList[r.calls[k].idx].StatusCode = StatusOK
            /\ ( /\ r.pc = "done"
                 /\ \A k \in DOMAIN r.calls :
                       Harmless(r.calls[k], "registerInstances",
                                {ExistedResource, SameInstanceRequest}) )
               => r.polarisCode = ExecuteSuccess

\* the same Register twice in one batch: registered, then found registered
C6_Witness ==
    \E r \in Requests :
        /\ Passed(r) /\ r.pc = "done"
        /\ r.list = <<Task(actionRegister, "i1", NoStatus),
                      Task(actionRegister, "i1", NoStatus)>>
        /\ r.calls[1].ret = ExecuteSuccess
        /\ r.calls[2].ret = SameInstanceRequest
        /\ r.codes = <<ExecuteSuccess, ExecuteSuccess>>
        /\ r.polarisCode = ExecuteSuccess

\* C7: a Cancel whose deregisterInstance returns NotFoundResource or
\* SameInstanceRequest is answered ExecuteSuccess with status 200, and does
\* not make the aggregate of the batch a failure.
C7_CancelOfAbsentInstance ==
    \A r \in Requests :
        Passed(r) =>
            /\ \A k \in DOMAIN r.calls :
                  ( /\ r.list[r.calls[k].idx].action = actionCancel
                    /\ r.calls[k].ret \in {NotFoundResource, SameInstanceRequest} )
                  => /\ r.codes[r.calls[k].idx] = ExecuteSuccess
                     /\ r.ResponseList[r.calls[k].idx].StatusCode = StatusOK
            /\ ( /\ r.pc = "done"
                 /\ \A k \in DOMAIN r.calls :
                       Harmless(r.calls[k], "deregisterInstance",
                                {NotFoundResource, SameInstanceRequest}) )
               => r.polarisCode = ExecuteSuccess

\* a Cancel for an instance the registry does not hold
C7_Witness ==
    \E r \in Requests :
        /\ Passed(r) /\ r.pc = "done"
        /\ r.list = <<Task(actionCancel, "i1", NoStatus)>>
        /\ r.calls[1].before = {}
        /\ r.calls[1].ret = NotFoundResource
        /\ r.codes = <<ExecuteSuccess>>
        /\ r.ResponseList = <<[StatusCode |-> StatusOK]>>
        /\ r.polarisCode = ExecuteSuccess

\* C8: a Heartbeat whose renew returns HeartbeatExceedLimit is answered
\* ExecuteSuccess, so the rate limit of renewals makes neither the task nor
\* the aggregate of the batch a failure.
C8_HeartbeatRateLimited ==
    \A r \in Requests :
        Passed(r) =>
            /\ \A k \in DOMAIN r.calls :
                  ( /\ r.list[r.calls[k].idx].action = actionHeartbeat
                    /\ r.calls[k].ret = HeartbeatExceedLimit )
                  => /\ r.codes[r.calls[k].idx] = ExecuteSuccess
                     /\ r.ResponseList[r.calls[k].idx].StatusCode = StatusOK
            /\ ( /\ r.pc = "done"
                 /\ \A k \in DOMAIN r.calls :
                       Harmless(r.calls[k], "renew", {HeartbeatExceedLimit}) )
               => r.polarisCode = ExecuteSuccess

\* a rate-limited Heartbeat after a Register
C8_Witness ==
    \E r \in Requests :
        /\ Passed(r) /\ r.pc = "done"
        /\ r.list = <<Task(actionRegister, "i1", NoStatus),
                      Task(actionHeartbeat, "i1", NoStatus)>>
        /\ r.calls[2].ret = HeartbeatExceedLimit
        /\ r.codes[2] = ExecuteSuccess
        /\ r.polarisCode = ExecuteSuccess

\* C9: a request whose identity header is this node's own identity string is
\* answered with an empty response list and success whatever its body and
\* auth, and no local operation is invoked for it.
C9_SelfEcho ==
    \A r \in Requests :
        (r.pc # "idle" /\ r.src = valueIdentityName) =>
            /\ r.pc = "done"
            /\ r.wroteList
            /\ r.ResponseList = << >>
            /\ r.httpStatus = StatusOK
            /\ r.polarisCode = ExecuteSuccess
            /\ r.pos = 0
            /\ r.calls = << >>

\* a request under the node's own identity with a well-formed, authorised
\* list of MaxBatch tasks
C9_Witness ==
    \E r \in Requests :
        /\ r.pc = "done" /\ r.src = valueIdentityName
        /\ r.wellFormed /\ r.auth
        /\ Len(r.list) = MaxBatch
        /\ r.list[1].action = actionRegister
        /\ r.ResponseList = << >>

\* C10: a request of another source whose body does not parse is rejected as a
\* whole: code ParseException, status 400, no response list, no outcome of any
\* task and no local operation invoked.
C10_MalformedBody ==
    \A r \in Requests :
        (r.pc # "idle" /\ r.src # valueIdentityName /\ ~r.wellFormed) =>
            /\ r.pc = "done"
            /\ r.polarisCode = ParseException
            /\ r.httpStatus = StatusBadRequest
            /\ ~r.wroteList
            /\ r.ResponseList = << >>
            /\ r.codes = << >>
            /\ r.pos = 0
            /\ r.calls = << >>

\* a malformed request of another source, with valid auth
C10_Witness ==
    \E r \in Requests :
        /\ r.pc = "done" /\ r.src = otherIdentityName
        /\ ~r.wellFormed /\ r.auth
        /\ r.list # << >>
        /\ r.httpStatus = StatusBadRequest

\* C11: a well-formed request of another source whose auth info cannot be read
\* (credential missing or invalid) is rejected as a whole with status 403: no
\* local operation is invoked and no outcome of any task is returned; the
\* credential is checked once, so a request that got past the check is never
\* answered 403, whatever its tasks return.
C11_AuthFailure ==
    \A r \in Requests :
        /\ (r.pc # "idle" /\ r.src # valueIdentityName /\ r.wellFormed /\ ~r.auth) =>
              /\ r.pc = "done"
              /\ r.httpStatus = StatusForbidden
              /\ ~r.wroteList
              /\ r.ResponseList = << >>
              /\ r.codes = << >>
              /\ r.pos = 0
              /\ r.calls = << >>
        /\ Passed(r) => r.httpStatus # StatusForbidden

\* a well-formed list of MaxBatch tasks, sent by another source without a
\* credential that can be read, was answered 403
C11_Witness ==
    \E r \in Requests :
        /\ r.pc = "done" /\ r.src = otherIdentityName
        /\ r.wellFormed /\ ~r.auth
        /\ Len(r.list) = MaxBatch
        /\ r.list[1].action = actionRegister
        /\ r.httpStatus = StatusForbidden
        /\ r.calls = << >>

\* the tasks handleInstanceEvent has added: those of its latest call and
\* those still in the queue of a worker
Emitted ==
    {last.tasks[i] : i \in DOMAIN last.tasks}
        \cup UNION {{outQ[n][i] : i \in DOMAIN outQ[n]} : n \in Nodes}

\* the latest step was handleInstanceEvent for an eligible event of kind k
Handled(k) == last.seen /\ last.replicate /\ last.e.kind = k

\* the latest call of handleInstanceEvent added its tasks at the end of the
\* queue of its node
Enqueued ==
    LET q == outQ[last.node]
    IN  /\ Len(q) >= Len(last.tasks)
        /\ SubSeq(q, Len(q) - Len(last.tasks) + 1, Len(q)) = last.tasks

\* C12: for every eligible event of kind InstanceOffline the task added has
\* action Cancel, the id of the event and no instance snapshot, and no task
\* added with action Cancel has a snapshot.
C12_OfflineIsCancel ==
    /\ Handled(EventInstanceOffline) =>
          /\ Len(last.tasks) = 1
          /\ last.tasks[1].action = actionCancel
          /\ last.tasks[1].id = last.e.id
          /\ ~last.tasks[1].info.present
          /\ Enqueued
    /\ \A t \in Emitted : t.action = actionCancel => ~t.info.present

\* an InstanceOffline event of the node's namespace without the replicate
\* flag was turned into a bare Cancel task
C12_Witness ==
    /\ Handled(EventInstanceOffline)
    /\ last.e.meta = {}
    /\ last.tasks = <<ReplicationInstance(actionCancel, "i1", NoStatus, NoStatus,
                                          FALSE, NoInfo)>>
    /\ outQ[last.node] = last.tasks

\* C13: for every eligible event of kind InstanceSendHeartbeat the task added
\* has overriddenStatus OutOfService when the instance of the event is
\* isolated and no overriddenStatus when it is not.
C13_HeartbeatOverride ==
    Handled(EventInstanceSendHeartbeat) =>
        /\ Len(last.tasks) = 1
        /\ last.tasks[1].action = actionHeartbeat
        /\ last.e.isolate => last.tasks[1].overridden = StatusOutOfService
        /\ ~last.e.isolate => last.tasks[1].overridden = NoStatus
        /\ Enqueued

\* the heartbeat of an isolated instance was turned into a Heartbeat task
\* with overriddenStatus OutOfService
C13_Witness ==
    /\ Handled(EventInstanceSendHeartbeat)
    /\ last.e.isolate
    /\ Len(last.tasks) = 1
    /\ last.tasks[1].overridden = StatusOutOfService
    /\ last.tasks[1].info.isolate

\* the statement of C14 as the specification has it: every task added with
\* action Register or Heartbeat carries an instance snapshot
C14_Original ==
    \A t \in Emitted :
        t.action \in {actionRegister, actionHeartbeat} => t.info.present

\* C14 (amended): every task added with action Register, and the Heartbeat
\* task of every InstanceSendHeartbeat event, carries an instance snapshot;
\* the Heartbeat task of an InstanceOpenIsolate event carries none, and it is
\* the only Heartbeat task without one.
C14_SnapshotOfRegisterAndHeartbeat ==
    /\ \A t \in Emitted :
          /\ t.action = actionRegister => t.info.present
          /\ (t.action = actionHeartbeat /\ ~t.info.present) =>
                (t.status = NoStatus /\ t.overridden = StatusOutOfService /\ t.dirty)
    /\ Handled(EventInstanceOnline) =>
          /\ Len(last.tasks) = 1
          /\ last.tasks[1].action = actionRegister
          /\ last.tasks[1].info.present
    /\ Handled(EventInstanceSendHeartbeat) =>
          /\ Len(last.tasks) = 1
          /\ last.tasks[1].action = actionHeartbeat
          /\ last.tasks[1].info.present
    /\ Handled(EventInstanceOpenIsolate) =>
          /\ Len(last.tasks) = 1
          /\ last.tasks[1].action = actionHeartbeat
          /\ ~last.tasks[1].info.present

\* an InstanceOpenIsolate event was turned into a Heartbeat task that has no
\* instance snapshot
C14_Witness ==
    /\ Handled(EventInstanceOpenIsolate)
    /\ Len(last.tasks) = 1
    /\ last.tasks[1].action = actionHeartbeat
    /\ last.tasks[1].info = NoInfo
    /\ outQ[last.node] = last.tasks

\* C15: the StatusCode of the response of a task is 404 exactly when the code
\* of the task after normalization is NotFoundResource, and 200 for every
\* other code, ExecuteException and the other failures included.
C15_StatusHint ==
    \A r \in Requests :
        Passed(r) =>
            /\ Len(r.ResponseList) = Len(r.codes)
            /\ \A i \in DOMAIN r.codes :
                  /\ r.ResponseList[i].StatusCode \in {StatusOK, StatusNotFound}
                  /\ (r.ResponseList[i].StatusCode = StatusNotFound)
                        <=> (r.codes[i] = NotFoundResource)
                  /\ r.codes[i] = TaskCode(r, i)

\* a batch whose first task failed with ExecuteException and whose second
\* was not found: hints 200 and 404
C15_Witness ==
    \E r \in Requests :
        /\ Passed(r) /\ r.pc = "done"
        /\ r.list = <<Task(actionRegister, "i1", NoStatus),
                      Task(actionStatusUpdate, "i1", StatusUp)>>
        /\ r.calls[1].ret = ExecuteException
        /\ r.calls[2].ret = NotFoundResource
        /\ r.ResponseList[1].StatusCode = StatusOK
        /\ r.ResponseList[2].StatusCode = StatusNotFound

\* C16: a StatusUpdate task calls updateStatus with the status of the task, a
\* DeleteStatusOverride task calls it with StatusUp whatever status the task
\* has, and the code of the task is the code updateStatus returned: any code
\* that is not ExecuteSuccess, NotFoundResource included, is the outcome of
\* the task and goes into the aggregate.
C16_StatusCodesPropagate ==
    \A r \in Requests :
        Passed(r) =>
            \A k \in DOMAIN r.calls :
                LET i == r.calls[k].idx
                    t == r.list[i]
                IN  t.action \in {actionStatusUpdate, actionDeleteStatusOverride} =>
                        /\ r.calls[k].op = "updateStatus"
                        /\ r.calls[k].id = t.id
                        /\ t.action = actionStatusUpdate => r.calls[k].status = t.status
                        /\ t.action = actionDeleteStatusOverride =>
                              r.calls[k].status = StatusUp
                        /\ r.codes[i] = r.calls[k].ret
                        /\ (r.ResponseList[i].StatusCode = StatusNotFound)
                              <=> (r.calls[k].ret = NotFoundResource)
                        /\ (r.pc = "done" /\ r.calls[k].ret # ExecuteSuccess) =>
                              /\ r.polarisCode # ExecuteSuccess
                              /\ i = Max(NonSuccess(r.codes)) =>
                                    r.polarisCode = r.calls[k].ret

\* a DeleteStatusOverride task with status Down for an instance the registry
\* does not hold: updateStatus is called with Up, and its NotFoundResource is
\* the code of the task and of the batch
C16_Witness ==
    \E r \in Requests :
        /\ Passed(r) /\ r.pc = "done"
        /\ r.list = <<Task(actionDeleteStatusOverride, "i1", StatusDown)>>
        /\ r.calls[1].status = StatusUp
        /\ r.calls[1].before = {}
        /\ r.calls[1].ret = NotFoundResource
        /\ r.codes = <<NotFoundResource>>
        /\ r.ResponseList = <<[StatusCode |-> StatusNotFound]>>
        /\ r.polarisCode = NotFoundResource

\* the event types the switch of handleInstanceEvent has a case for
CaseKinds == EventKinds \ {EventOther}

\* the rows of the translation table for the task added for event e
FollowsTable(e, t) ==
    /\ t.id = e.id
    /\ e.kind = EventInstanceOnline =>
          /\ t.action = actionRegister /\ t.status = StatusUp
          /\ t.overridden = NoStatus
          /\ t.info.present
          /\ t.info.healthy = e.healthy /\ t.info.isolate = e.isolate
    /\ e.kind = EventInstanceTurnHealth =>
          /\ t.action = actionStatusUpdate /\ t.status = StatusUp
          /\ t.overridden = NoStatus /\ ~t.info.present
    /\ e.kind = EventInstanceTurnUnHealth =>
          /\ t.action = actionStatusUpdate /\ t.status = StatusDown
          /\ t.overridden = NoStatus /\ ~t.info.present
    /\ e.kind = EventInstanceOpenIsolate =>
          /\ t.action = actionHeartbeat /\ t.status = NoStatus
          /\ t.overridden = StatusOutOfService /\ ~t.info.present
    /\ e.kind = EventInstanceCloseIsolate =>
          /\ t.action = actionDeleteStatusOverride /\ t.status = NoStatus
          /\ t.overridden = NoStatus /\ ~t.info.present

UnknownTasks(r) == {i \in 1 .. r.pos : r.list[i].action \notin KnownActions}

\* no local operation was invoked for a task of unknown action, and its
\* outcome is ExecuteSuccess with StatusCode 200
UnknownTaskAnswered ==
    \A r \in Requests :
        Passed(r) =>
            \A i \in UnknownTasks(r) :
                /\ CallsOf(r, i) = {}
                /\ r.codes[i] = ExecuteSuccess
                /\ r.ResponseList[i] = [StatusCode |-> StatusOK]

\* the turn of the loop that dispatches a task of unknown action leaves the
\* registry, the events and the aggregate as they are
UnknownTaskStep ==
    \A n \in Nodes, s \in Slots :
        LET r == req[n][s]
        IN  ( /\ r.pc = "run" /\ r.pos < Len(r.list)
              /\ r.list[r.pos + 1].action \notin KnownActions
              /\ req'[n][s].pos = r.pos + 1 )
            => /\ registry' = registry
               /\ events' = events
               /\ req'[n][s].calls = r.calls
               /\ req'[n][s].resultCode = r.resultCode

\* C19: a task whose action is none of the five known ones makes dispatch
\* invoke no local operation; its response still has StatusCode 200 and its
\* code is ExecuteSuccess, so it never changes the aggregate of the batch.
C19_UnknownAction ==
    /\ []UnknownTaskAnswered
    /\ [][UnknownTaskStep]_vars

\* a batch of a Register that failed and a task of unknown action: one call,
\* the second task answered 200, the aggregate still that of the first
C19_Witness ==
    \E r \in Requests :
        /\ Passed(r) /\ r.pc = "done"
        /\ r.list = <<Task(actionRegister, "i1", NoStatus),
                      Task(actionOther, "i1", NoStatus)>>
        /\ Len(r.calls) = 1
        /\ r.calls[1].ret = ExecuteException
        /\ r.codes = <<ExecuteException, ExecuteSuccess>>
        /\ r.ResponseList[2] = [StatusCode |-> StatusOK]
        /\ r.polarisCode = ExecuteException

\* C20: BatchReplication checks the identity header, then parses the body,
\* then reads the auth info, and the first check that fails decides the
\* response: a request under the node's own identity gets success and an
\* empty list even with a malformed body or without credential, and a request
\* of another source that is malformed and has no credential gets 400 and
\* ParseException, never 403.
C20_GuardOrder ==
    \A r \in Requests :
        r.pc # "idle" =>
            /\ r.src = valueIdentityName =>
                  /\ r.pc = "done" /\ r.wroteList /\ r.ResponseList = << >>
                  /\ r.httpStatus = StatusOK /\ r.polarisCode = ExecuteSuccess
                  /\ r.calls = << >>
            /\ (r.src # valueIdentityName /\ ~r.wellFormed) =>
                  /\ r.pc = "done" /\ ~r.wroteList
                  /\ r.httpStatus = StatusBadRequest
                  /\ r.polarisCode = ParseException
                  /\ r.calls = << >>
            /\ (r.src # valueIdentityName /\ r.wellFormed /\ ~r.auth) =>
                  /\ r.pc = "done" /\ ~r.wroteList
                  /\ r.httpStatus = StatusForbidden
                  /\ r.polarisCode = AuthFailCode
                  /\ r.calls = << >>
            /\ (Passed(r) /\ r.pc = "done") =>
                  /\ r.wroteList /\ r.httpStatus = StatusOK
                  /\ Len(r.ResponseList) = Len(r.list)

\* a request of another source, malformed and without credential, was
\* answered 400 with ParseException
C20_Witness ==
    \E r \in Requests :
        /\ r.pc = "done" /\ r.src = otherIdentityName
        /\ ~r.wellFormed /\ ~r.auth
        /\ r.httpStatus = StatusBadRequest
        /\ r.polarisCode = ParseException

\* ------------------------------------------------------------------------
\* One node serving two requests at once
\* ------------------------------------------------------------------------
\* the tasks of the requests served at once: Register and StatusUpdate, so
\* that what one request finds depends on what the other has done
ConcTasks ==
    {Task(actionRegister, id, NoStatus) : id \in Ids}
        \cup {Task(actionStatusUpdate, id, StatusUp) : id \in Ids}

ConcBatches == SeqsUpTo(ConcTasks, MaxBatch)

\* a request of ConcBatches that gets past the checks arrives in slot s
ConcBatchReplication(n, s) ==
    /\ BatchReplication(n, s)
    /\ Passed(req'[n][s])
    /\ req'[n][s].list \in ConcBatches

\* one turn of the loop of the request in slot s, on a working registry
ConcDoBatchReplicate(n, s) ==
    /\ doBatchReplicate(n, s)
    /\ \A k \in DOMAIN req'[n][s].calls :
          req'[n][s].calls[k].ret \in WorkingCodes(req'[n][s].calls[k].op)

ConcNext ==
    \/ \E s \in Slots :
          \/ ConcBatchReplication(Self, s)
          \/ ConcDoBatchReplicate(Self, s)
          \/ writeEurekaResponseWithCode(Self, s)
          \/ Return(Self, s)
    \/ handleInstanceEvent(Self)

ConcSpec == Init /\ [][ConcNext]_vars

\* resultCode as doBatchReplicate computes it from the codes of the tasks
RECURSIVE Fold(_)
Fold(codes) ==
    IF codes = << >> THEN ExecuteSuccess
    ELSE LET code == codes[Len(codes)]
         IN  IF code # ExecuteSuccess THEN code
             ELSE Fold(SubSeq(codes, 1, Len(codes) - 1))

\* the responses and the aggregate of every request follow from the codes
\* the local operations returned for its own tasks, and its calls were made
\* in the order of its own list
OwnTasksOnly ==
    \A r \in Requests :
        Passed(r) =>
            /\ Len(r.ResponseList) = r.pos /\ Len(r.codes) = r.pos
            /\ \A i \in 1 .. r.pos :
                  /\ Cardinality(CallsOf(r, i)) =
                        IF r.list[i].action \in KnownActions THEN 1 ELSE 0
                  /\ r.codes[i] = TaskCode(r, i)
                  /\ r.ResponseList[i] = Response(TaskCode(r, i))
            /\ r.resultCode = Fold(r.codes)
            /\ \A k \in DOMAIN r.calls :
                  /\ r.calls[k].op = LocalOp(r.list[r.calls[k].idx].action)
                  /\ \A j \in DOMAIN r.calls : j < k => r.calls[j].idx < r.calls[k].idx
            /\ r.pc = "done" =>
                  /\ r.pos = Len(r.list)
                  /\ r.polarisCode = Fold(r.codes)

\* a step that changes the request of one slot leaves the request of every
\* other slot as it is
OtherRequestsUntouched ==
    \A n \in Nodes, s \in Slots :
        req'[n][s] # req[n][s] =>
            \A m \in Nodes, t \in Slots :
                <<m, t>> # <<n, s>> => req'[m][t] = req[m][t]

\* C18: batches served at the same time are independent at the dispatcher:
\* under every interleaving the response list and the aggregate of each
\* request are determined by the codes the local operations returned for its
\* own tasks, its tasks are applied in the order of its own list, and no step
\* of one request changes what the dispatcher holds for another.
C18_ConcurrentBatchesIndependent ==
    /\ []OwnTasksOnly
    /\ [][OtherRequestsUntouched]_vars

\* two requests served at once and both answered: the Register of the second
\* was applied between the two StatusUpdate tasks of the first, which ends
\* with NotFoundResource while the second ends with ExecuteSuccess
C18_Witness ==
    LET a == req[Self][1]
        b == req[Self][2]
    IN  /\ Passed(a) /\ a.pc = "done"
        /\ Passed(b) /\ b.pc = "done"
        /\ a.list = <<Task(actionStatusUpdate, "i1", StatusUp),
                      Task(actionStatusUpdate, "i1", StatusUp)>>
        /\ b.list = <<Task(actionRegister, "i1", NoStatus),
                      Task(actionStatusUpdate, "i1", StatusUp)>>
        /\ a.calls[1].before = {} /\ a.calls[2].before = {"i1"}
        /\ a.codes = <<NotFoundResource, ExecuteSuccess>>
        /\ a.polarisCode = NotFoundResource
        /\ b.codes = <<ExecuteSuccess, ExecuteSuccess>>
        /\ b.polarisCode = ExecuteSuccess

====
